---- MODULE Spec2Model ----
(***************************************************************************)
(* Model of the sol lexer (src/src/lexer.rs, src/src/lexer/tokens.rs).     *)
(*                                                                         *)
(* A character is a string naming it: an ASCII character is the string     *)
(* holding it, a non-ASCII character is named by its code point            *)
(* ("U+00E9").  The input is a sequence of characters (Vec<char>); Rust    *)
(* indices are 0-based, so the character at Rust index i is input[i + 1].  *)
(***************************************************************************)
EXTENDS Integers, Sequences, FiniteSets, TLC

VARIABLES input, current_idx, peek_idx, line, column, state, tokens, result, value,
          lead, eof

vars ==
    <<input, current_idx, peek_idx, line, column, state, tokens, result, value, lead, eof>>

----------------------------------------------------------------------------
(* Bounds of the model *)

\* longest input of the family enumerated over Alphabet
MaxLen == 3

\* longest input of the family enumerated over CommentAlphabet
MaxCommentLen == 5

\* how many times end-of-input may be signalled before the caller stops
MaxEofCalls == 2

\* longest run of whitespace put next to a whitespace character of the input
MaxRun == 2

----------------------------------------------------------------------------
(* Characters and their classification (char::is_alphabetic, is_numeric,   *)
(* is_whitespace of the Rust standard library, restricted to the           *)
(* characters of the model).                                               *)

Letters ==
    {"a", "b", "c", "d", "e", "f", "g", "h", "i", "j", "k", "l", "m",
     "n", "o", "p", "q", "r", "s", "t", "u", "v", "w", "x", "y", "z",
     "A", "B", "C"}

\* U+00E9 is LATIN SMALL LETTER E WITH ACUTE
Alphabetic == Letters \cup {"U+00E9"}

AsciiDigits == {"0", "1", "2", "3", "4", "5", "6", "7", "8", "9"}

\* U+0663 is ARABIC-INDIC DIGIT THREE: numeric, but not an ASCII digit
Numeric == AsciiDigits \cup {"U+0663"}

\* U+00A0 is NO-BREAK SPACE
Whitespace == {" ", "\t", "\r", "\n", "\f", "U+00A0"}

Symbols ==
    {"=", "+", "-", "!", "*", "/", "<", ">", ",", ";", "(", ")", "{", "}",
     "[", "]", "^", "&", "~", ":", "_"}

Chars == Alphabetic \cup Numeric \cup Whitespace \cup Symbols

is_alphabetic(ch) == ch \in Alphabetic

is_numeric(ch) == ch \in Numeric

is_alphanumeric(ch) == is_alphabetic(ch) \/ is_numeric(ch)

\* a whitespace test that knows the space and the newline only
is_whitespace_ascii_subset(ch) == ch \in {" ", "\n"}

is_whitespace(ch) == ch \in Whitespace

\* number of bytes of the UTF-8 encoding of a character
len_utf8(ch) == IF ch \in {"U+00E9", "U+0663", "U+00A0"} THEN 2 ELSE 1

RECURSIVE ByteLen(_)
\* String::len: the length of the text in bytes
ByteLen(s) == IF s = <<>> THEN 0 ELSE len_utf8(Head(s)) + ByteLen(Tail(s))

\* Option<char>::None
None == "<None>"

----------------------------------------------------------------------------
(* Tokens *)

Tok(t) == [type |-> t, name |-> <<>>, num |-> 0]

Ident(n) == [type |-> "Ident", name |-> n, num |-> 0]

Integer(v) == [type |-> "Integer", name |-> <<>>, num |-> v]

Invalid == Tok("Invalid")

Eol == Tok("Eol")

\* the value of `result.tok` when an operation returns no token
NoToken == Tok("<none>")

I32Max == 2147483647

DigitVal(ch) ==
    CASE ch = "0" -> 0 [] ch = "1" -> 1 [] ch = "2" -> 2 [] ch = "3" -> 3
      [] ch = "4" -> 4 [] ch = "5" -> 5 [] ch = "6" -> 6 [] ch = "7" -> 7
      [] ch = "8" -> 8 [] ch = "9" -> 9

ParseErr == [ok |-> FALSE, val |-> 0]

RECURSIVE ParseDigits(_, _, _)
\* the digit loop of i32::from_str_radix: checked_mul by the radix, then
\* checked_add (positive) or checked_sub (negative) of the digit; the tests
\* are written so that no intermediate value leaves the 32-bit range
ParseDigits(s, acc, positive) ==
    IF s = <<>> THEN [ok |-> TRUE, val |-> acc]
    ELSE IF Head(s) \notin AsciiDigits THEN ParseErr
    ELSE IF acc > I32Max \div 10 \/ acc < -(I32Max \div 10) THEN ParseErr
    ELSE LET d == DigitVal(Head(s))
             m == acc * 10
         IN  IF positive
             THEN IF d > I32Max - m THEN ParseErr
                  ELSE ParseDigits(Tail(s), m + d, positive)
             ELSE IF d - 1 > m + I32Max THEN ParseErr
                  ELSE ParseDigits(Tail(s), m - d, positive)

\* str::parse::<i32>
parse(s) ==
    IF s = <<>> THEN ParseErr
    ELSE IF Head(s) \in {"+", "-"}
         THEN IF Len(s) = 1 THEN ParseErr
              ELSE ParseDigits(Tail(s), 0, Head(s) = "+")
         ELSE ParseDigits(s, 0, TRUE)

DigitChar(d) ==
    CASE d = 0 -> "0" [] d = 1 -> "1" [] d = 2 -> "2" [] d = 3 -> "3"
      [] d = 4 -> "4" [] d = 5 -> "5" [] d = 6 -> "6" [] d = 7 -> "7"
      [] d = 8 -> "8" [] d = 9 -> "9"

RECURSIVE NatToDigits(_)
\* the decimal digits of a natural number
NatToDigits(n) ==
    IF n < 10 THEN <<DigitChar(n)>>
    ELSE Append(NatToDigits(n \div 10), DigitChar(n % 10))

\* `write!(f, "{i}")` of an i32 other than i32::MIN
IntToText(i) == IF i < 0 THEN <<"-">> \o NatToDigits(-i) ELSE NatToDigits(i)

\* the variants of Token that <Token as fmt::Display>::fmt matches
DisplayTypes ==
    {"Invalid", "Ident", "Integer", "Assign", "Plus", "Minus", "Bang", "Asterisk",
     "Slash", "Lt", "LtEq", "Gt", "GtEq", "Eq", "NotEq", "Comma", "Semicolon",
     "LParen", "RParen", "LBrace", "RBrace", "LBracket", "RBracket", "Decl",
     "While", "For", "If", "Else", "Return", "Fun"}

\* <Token as fmt::Display>::fmt: the text written for the token
display(tok) ==
    CASE tok.type = "Invalid" -> <<"I", "n", "v", "a", "l", "i", "d">>
      [] tok.type = "Ident" -> tok.name
      [] tok.type = "Integer" -> IntToText(tok.num)
      [] tok.type = "Assign" -> <<"=">>
      [] tok.type = "Plus" -> <<"+">>
      [] tok.type = "Minus" -> <<"-">>
      [] tok.type = "Bang" -> <<"!">>
      [] tok.type = "Asterisk" -> <<"*">>
      [] tok.type = "Slash" -> <<"/">>
      [] tok.type = "Lt" -> <<"<">>
      [] tok.type = "LtEq" -> <<"<", "=">>
      [] tok.type = "Gt" -> <<">">>
      [] tok.type = "GtEq" -> <<">", "=">>
      [] tok.type = "Eq" -> <<"=", "=">>
      [] tok.type = "NotEq" -> <<"!", "=">>
      [] tok.type = "Comma" -> <<",">>
      [] tok.type = "Semicolon" -> <<";">>
      [] tok.type = "LParen" -> <<"(">>
      [] tok.type = "RParen" -> <<")">>
      [] tok.type = "LBrace" -> <<"[">>
      [] tok.type = "RBrace" -> <<"]">>
      [] tok.type = "LBracket" -> <<"{">>
      [] tok.type = "RBracket" -> <<"}">>
      [] tok.type = "Decl" -> <<"d", "e", "c", "l">>
      [] tok.type = "While" -> <<"w", "h", "i", "l", "e">>
      [] tok.type = "For" -> <<"f", "o", "r">>
      [] tok.type = "If" -> <<"i", "f">>
      [] tok.type = "Else" -> <<"e", "l", "s", "e">>
      [] tok.type = "Return" -> <<"r", "e", "t", "u", "r", "n">>
      [] tok.type = "Fun" -> <<"f", "u", "n">>

----------------------------------------------------------------------------
(* The scanner's operations, as functions of the Lexer value `l`.  Each     *)
(* returns the Lexer after the call (.l) and the value returned (.ret).     *)

Lexer(in, ci, pi, ln, col) ==
    [input |-> in, current_idx |-> ci, peek_idx |-> pi, line |-> ln, column |-> col]

current(l) ==
    LET idx == IF l.current_idx < 0 THEN 0 ELSE l.current_idx
    IN  IF idx >= Len(l.input) THEN None ELSE l.input[idx + 1]

\* next with the end test one character early
next_stops_early(l) ==
    IF l.current_idx + 2 >= Len(l.input) THEN [l |-> l, ret |-> None]
    ELSE LET ci == l.current_idx + 1
             pi == IF ci # 0 THEN l.peek_idx + 1 ELSE l.peek_idx
             ch == l.input[ci + 1]
         IN  [l |-> [l EXCEPT !.current_idx = ci,
                              !.peek_idx = pi,
                              !.line = IF ch = "\n" THEN @ + 1 ELSE @,
                              !.column = IF ch = "\n" THEN 0 ELSE @ + 1],
              ret |-> ch]

\* next counting a column before the end test
next_counts_at_end(l) ==
    IF l.current_idx + 1 >= Len(l.input)
    THEN [l |-> [l EXCEPT !.column = @ + 1], ret |-> None]
    ELSE LET ci == l.current_idx + 1
             pi == IF ci # 0 THEN l.peek_idx + 1 ELSE l.peek_idx
             ch == l.input[ci + 1]
         IN  [l |-> [l EXCEPT !.current_idx = ci,
                              !.peek_idx = pi,
                              !.line = IF ch = "\n" THEN @ + 1 ELSE @,
                              !.column = IF ch = "\n" THEN 0 ELSE @ + 1],
              ret |-> ch]

next(l) ==
    IF l.current_idx + 1 >= Len(l.input) THEN [l |-> l, ret |-> None]
    ELSE LET ci == l.current_idx + 1
             pi == IF ci # 0 THEN l.peek_idx + 1 ELSE l.peek_idx
             ch == l.input[ci + 1]
         IN  [l |-> [l EXCEPT !.current_idx = ci,
                              !.peek_idx = pi,
                              !.line = IF ch = "\n" THEN @ + 1 ELSE @,
                              !.column = IF ch = "\n" THEN 0 ELSE @ + 1],
              ret |-> ch]

peek(l) ==
    IF l.peek_idx >= Len(l.input) THEN None ELSE l.input[l.peek_idx + 1]

RECURSIVE consume_comment_loop(_)
consume_comment_loop(l) ==
    LET n == next(l)
    IN  IF n.ret = None THEN n.l
        ELSE IF n.ret = "*" /\ peek(n.l) = "/" THEN next(n.l).l
        ELSE consume_comment_loop(n.l)

consume_comment(l) ==
    IF current(l) # "/" /\ peek(l) # "*" THEN l
    ELSE consume_comment_loop(l)

RECURSIVE consume_whitespace_loop(_)
consume_whitespace_loop(l) ==
    IF peek(l) # None /\ is_whitespace(peek(l))
    THEN consume_whitespace_loop(next(l).l)
    ELSE l

consume_whitespace(l) ==
    IF current(l) # None /\ ~is_whitespace(current(l)) THEN l
    ELSE consume_whitespace_loop(l)

RECURSIVE read_number_loop(_, _)
read_number_loop(l, number) ==
    IF peek(l) = None \/ ~is_numeric(peek(l)) THEN [l |-> l, ret |-> number]
    ELSE LET n == next(l) IN read_number_loop(n.l, Append(number, n.ret))

\* read_number starting from an empty text instead of the current character
read_number_drops_first(l) ==
    LET r == read_number_loop(l, <<>>)
    IN  [l |-> r.l, ret |-> parse(r.ret)]

read_number(l) ==
    LET r == read_number_loop(l, <<current(l)>>)
    IN  [l |-> r.l, ret |-> parse(r.ret)]

RECURSIVE read_identifier_loop(_, _)
read_identifier_loop(l, ident) ==
    IF peek(l) = None \/ (~is_alphanumeric(peek(l)) /\ peek(l) # "_")
    THEN [l |-> l, ret |-> ident]
    ELSE LET n == next(l) IN read_identifier_loop(n.l, Append(ident, n.ret))

read_identifier(l) == read_identifier_loop(l, <<current(l)>>)

\* the `match ident.as_str()` of read_token
keyword(ident) ==
    CASE ident = <<"l", "e", "t">> -> Tok("Let")
      [] ident = <<"f", "n">> -> Tok("Fn")
      [] ident = <<"i", "f">> -> Tok("If")
      [] ident = <<"e", "l", "s", "e">> -> Tok("Else")
      [] ident = <<"r", "e", "t", "u", "r", "n">> -> Tok("Return")
      [] ident = <<"w", "h", "i", "l", "e">> -> Tok("While")
      [] OTHER -> Ident(ident)

\* a value returned by read_token: the Lexer after the call, the token, and
\* the index of the token's lead character (the character returned by the
\* `self.next()` of the invocation that built the token; -1 for Eol)
Ret(l, tok, at) == [l |-> l, ret |-> tok, lead |-> at]

\* two_char without the `let _ = self.next()` of the two-character case
two_char_unconsumed(l, one, two) ==
    IF peek(l) = "=" THEN Ret(l, Tok(two), l.current_idx)
    ELSE Ret(l, Tok(one), l.current_idx)

\* the arms `Some(c) => if self.peek() == Some('=') { next; two } else { one }`
two_char(l, one, two) ==
    IF peek(l) = "=" THEN Ret(next(l).l, Tok(two), l.current_idx)
    ELSE Ret(l, Tok(one), l.current_idx)

\* the arms of read_token that return one fixed token for one character
single_char(ch) ==
    CASE ch = "+" -> Tok("Plus")
      [] ch = "-" -> Tok("Minus")
      [] ch = "*" -> Tok("Asterisk")
      [] ch = "," -> Tok("Comma")
      [] ch = ";" -> Tok("Semicolon")
      [] ch = "(" -> Tok("LParen")
      [] ch = ")" -> Tok("RParen")
      [] ch = "{" -> Tok("LBrace")
      [] ch = "}" -> Tok("RBrace")
      [] ch = "[" -> Tok("LBracket")
      [] ch = "]" -> Tok("RBracket")

SingleChars == {"+", "-", "*", ",", ";", "(", ")", "{", "}", "[", "]"}

\* the arm `Some(ch) if ch.is_alphabetic()`
identifier_arm(l) ==
    LET r == read_identifier(l)
    IN  Ret(r.l, keyword(r.ret), l.current_idx)

\* the arm `Some(ch) if ch.is_numeric()`
number_arm(l) ==
    LET r == read_number(l)
    IN  Ret(r.l, IF r.ret.ok THEN Integer(r.ret.val) ELSE Invalid, l.current_idx)

RECURSIVE read_token(_)

\* the last arm skipping a character it does not know instead of
\* returning Invalid
other_arm_skips(l, ch) ==
    IF is_whitespace(ch) THEN read_token(consume_whitespace(l))
    ELSE read_token(l)

\* the arm `Some(ch) => if ch.is_whitespace() { ... } else { Token::Invalid }`
other_arm(l, ch) ==
    IF is_whitespace(ch) THEN read_token(consume_whitespace(l))
    ELSE Ret(l, Invalid, l.current_idx)

\* the arm `Some('/')`
slash_arm(l) ==
    IF peek(l) = "*" THEN read_token(consume_comment(l))
    ELSE Ret(l, Tok("Slash"), l.current_idx)

read_token(l) ==
    LET n  == next(consume_whitespace(l))
        m  == n.l
        ch == n.ret
    IN  CASE ch = "=" -> two_char(m, "Assign", "Eq")
          [] ch = "!" -> two_char(m, "Bang", "NotEq")
          [] ch = "/" -> slash_arm(m)
          [] ch = "<" -> two_char(m, "Lt", "LtEq")
          [] ch = ">" -> two_char(m, "Gt", "GtEq")
          [] ch \in SingleChars -> Ret(m, single_char(ch), m.current_idx)
          [] ch = None -> Ret(m, Eol, -1)
          [] OTHER ->
               IF is_alphabetic(ch) THEN identifier_arm(m)
               ELSE IF is_numeric(ch) THEN number_arm(m)
               ELSE other_arm(m, ch)

RECURSIVE TokensFrom(_)
\* the tokens read_token returns from the Lexer l on, up to the first Eol
TokensFrom(l) ==
    LET r == read_token(l)
    IN  IF r.ret = Eol THEN <<>> ELSE <<r.ret>> \o TokensFrom(r.l)

\* the tokens of a text: a fresh Lexer over it, read until Eol
Tokenize(s) == TokensFrom(Lexer(s, -1, 1, 1, 1))

----------------------------------------------------------------------------
(* Inputs *)

\* the characters of the exhaustively enumerated inputs
Alphabet == {"=", "<", "/", "*", " ", "\n", "a", "1", "^"}

RECURSIVE StringsOver(_, _)
\* all sequences over the set A of length at most n
StringsOver(A, n) ==
    IF n = 0 THEN {<<>>}
    ELSE LET S == StringsOver(A, n - 1)
         IN  S \cup {Append(s, c) : s \in {t \in S : Len(t) = n - 1}, c \in A}

Samples ==
    { <<"d", "e", "c", "l", " ", "a", " ", "=", " ", "4", "2", ";">>,
      <<"l", "e", "t", " ", "i", "d", "e", "n", "t", ";">>,
      <<"i", "d", "e", "n", "t", " ", "=", " ", "4", "2", ";">>,
      <<"i", "d", "e", "n", "t", "\t", "\r", "=", "\n", " ", "4", "2", " ", ";">>,
      <<"=", "+", "(", ")", "{", "}", ",", ";">>,
      <<"[", "]", "{", "}">>,
      <<"a", "[", "1", "]", "<", "=", "-", "7", "*", "/", "!", "=", ">", "=">>,
      <<"f", "o", "r">>, <<"f", "u", "n">>, <<"f", "n">>, <<"i", "f">>,
      <<"e", "l", "s", "e">>, <<"r", "e", "t", "u", "r", "n">>,
      <<"w", "h", "i", "l", "e">>, <<"l", "e", "t">>, <<"d", "e", "c", "l">>,
      <<"l", "e", "t", "_", "1">>, <<"i", "f", "U+00E9">>,
      <<"/", "/", " ", "c", "\n", "x">>,
      <<"a", " ", "/", "/", "b">>,
      <<"^", "&", "~", " ", "x">>,
      <<":", "_", "a">>,
      <<"/", "*", " ", "c", " ", "*", "/", "x">>,
      <<"/", "*", "*", "/", " ", "a", " ">>,
      <<"a", " ", "/", "*", "\n", "*", "/", "\n", "=">>,
      <<"/", "*", "*", "/", "/", "*", "a", "*", "/", "=", "=">>,
      <<"/", "*", " ", "a", "\n">>,
      <<"/", "*", "/", "a">>,
      <<"/", "*", "/", " ", "x", " ", "*", "/", " ", "y">>,
      <<"4", "2", ";">>, <<"0", "0", "7">>, <<"4", "2", "f", "o", "o">>,
      <<"1", "U+0663", " ", "a">>, <<"U+0663", "=">>,
      <<"2", "1", "4", "7", "4", "8", "3", "6", "4", "7">>,
      <<"2", "1", "4", "7", "4", "8", "3", "6", "4", "8", " ", "a">>,
      <<"0", "2", "1", "4", "7", "4", "8", "3", "6", "4", "7", "+">>,
      <<"9", "9", "9", "9", "9", "9", "9", "9", "9", "9", "9", "9", ";">>,
      <<"a", "U+00A0", "\f", "b">>,
      <<" ", "a", " ", "b", " ">>,
      <<"\n", "\t", "=", "=", "\r", "1", " ">>,
      <<"U+00E9">> }

\* the characters of the longer inputs made of comments and identifiers
CommentAlphabet == {"/", "*", "a", " "}

\* all texts of up to three operator characters and spaces
OperatorInputs == StringsOver({"=", "!", "<", ">", " "}, 3)

Inputs ==
    StringsOver(Alphabet, MaxLen) \cup StringsOver(CommentAlphabet, MaxCommentLen)
        \cup OperatorInputs \cup Samples

----------------------------------------------------------------------------
(* The state machine: a caller constructs a Lexer over a text and then      *)
(* calls its public operations.                                             *)

\* the Lexer held in the variables
Self == Lexer(input, current_idx, peek_idx, line, column)

\* the value of `value` when the last operation returned a token or nothing:
\* .ch is a returned Option<char>, .text a returned String, .ok and .num a
\* returned Result<i32, ParseIntError>
NoValue == [ch |-> None, text |-> <<>>, ok |-> FALSE, num |-> 0]

Init ==
    /\ input \in Inputs
    /\ current_idx = -1
    /\ peek_idx = 1
    /\ line = 1
    /\ column = 1
    /\ state = "unconstructed"
    /\ tokens = <<>>
    /\ result = [op |-> "none", some |-> FALSE, tok |-> NoToken]
    /\ value = NoValue
    /\ lead = -1
    /\ eof = 0

\* Lexer::new(input): the assertion on the byte length, then the fields
new ==
    /\ state = "unconstructed"
    /\ state' = IF ByteLen(input) >= 2 THEN "ready" ELSE "panicked"
    /\ current_idx' = -1
    /\ peek_idx' = 1
    /\ line' = 1
    /\ column' = 1
    /\ result' = [op |-> "new", some |-> FALSE, tok |-> NoToken]
    /\ value' = NoValue
    /\ lead' = -1
    /\ UNCHANGED <<input, tokens, eof>>

\* the fields of the Lexer become those of l
Store(l) ==
    /\ current_idx' = l.current_idx
    /\ peek_idx' = l.peek_idx
    /\ line' = l.line
    /\ column' = l.column
    /\ UNCHANGED <<input, state>>

\* a call of the public Lexer::read_token
ReadToken ==
    /\ state = "ready"
    /\ eof < MaxEofCalls
    /\ LET r == read_token(Self)
       IN  /\ Store(r.l)
           /\ result' = [op |-> "read_token", some |-> TRUE, tok |-> r.ret]
           /\ value' = NoValue
           /\ lead' = r.lead
           /\ tokens' = IF r.ret = Eol THEN tokens ELSE Append(tokens, r.ret)
           /\ eof' = IF r.ret = Eol THEN eof + 1 ELSE eof

\* the iterator's next without the `if tk == Token::Eol` test
iter_next_yields_eol ==
    /\ state = "ready"
    /\ eof < MaxEofCalls
    /\ LET r == read_token(Self)
       IN  /\ Store(r.l)
           /\ result' = [op |-> "iter_next", some |-> TRUE, tok |-> r.ret]
           /\ value' = NoValue
           /\ lead' = r.lead
           /\ tokens' = IF r.ret = Eol THEN tokens ELSE Append(tokens, r.ret)
           /\ eof' = IF r.ret = Eol THEN eof + 1 ELSE eof

\* a call of <Lexer as Iterator>::next
iter_next ==
    /\ state = "ready"
    /\ eof < MaxEofCalls
    /\ LET r == read_token(Self)
       IN  /\ Store(r.l)
           /\ result' = IF r.ret = Eol
                        THEN [op |-> "iter_next", some |-> FALSE, tok |-> NoToken]
                        ELSE [op |-> "iter_next", some |-> TRUE, tok |-> r.ret]
           /\ value' = NoValue
           /\ lead' = r.lead
           /\ tokens' = IF r.ret = Eol THEN tokens ELSE Append(tokens, r.ret)
           /\ eof' = IF r.ret = Eol THEN eof + 1 ELSE eof

Next == new \/ ReadToken \/ iter_next

Spec == Init /\ [][Next]_vars

----------------------------------------------------------------------------
(* The private operations, called one at a time as the tests of the module  *)
(* call them.                                                               *)

\* what a private operation leaves alone
PrivateFrame == UNCHANGED <<tokens, lead, eof>>

\* next advancing peek_idx on the first call too
CallNext_bumps_peek ==
    /\ state = "ready"
    /\ LET r == next(Self)
       IN  /\ Store([r.l EXCEPT !.peek_idx =
                        IF r.ret # None THEN peek_idx + 1 ELSE peek_idx])
           /\ result' = [op |-> "next", some |-> r.ret # None, tok |-> NoToken]
           /\ value' = [NoValue EXCEPT !.ch = r.ret]
    /\ PrivateFrame

\* a call of Lexer::next
CallNext ==
    /\ state = "ready"
    /\ LET r == next(Self)
       IN  /\ Store(r.l)
           /\ result' = [op |-> "next", some |-> r.ret # None, tok |-> NoToken]
           /\ value' = [NoValue EXCEPT !.ch = r.ret]
    /\ PrivateFrame

\* peek looking one character past peek_idx
CallPeek_looks_past ==
    /\ state = "ready"
    /\ LET ch == IF peek_idx + 1 >= Len(input) THEN None ELSE input[peek_idx + 2]
       IN  /\ result' = [op |-> "peek", some |-> ch # None, tok |-> NoToken]
           /\ value' = [NoValue EXCEPT !.ch = ch]
    /\ UNCHANGED <<input, current_idx, peek_idx, line, column, state>>
    /\ PrivateFrame

\* a call of Lexer::peek
CallPeek ==
    /\ state = "ready"
    /\ result' = [op |-> "peek", some |-> peek(Self) # None, tok |-> NoToken]
    /\ value' = [NoValue EXCEPT !.ch = peek(Self)]
    /\ UNCHANGED <<input, current_idx, peek_idx, line, column, state>>
    /\ PrivateFrame

\* current storing the index it computed (0 for -1) back into current_idx
CallCurrent_stores_index ==
    /\ state = "ready"
    /\ result' = [op |-> "current", some |-> current(Self) # None, tok |-> NoToken]
    /\ value' = [NoValue EXCEPT !.ch = current(Self)]
    /\ current_idx' = IF current_idx < 0 THEN 0 ELSE current_idx
    /\ UNCHANGED <<input, peek_idx, line, column, state>>
    /\ PrivateFrame

\* a call of Lexer::current
CallCurrent ==
    /\ state = "ready"
    /\ result' = [op |-> "current", some |-> current(Self) # None, tok |-> NoToken]
    /\ value' = [NoValue EXCEPT !.ch = current(Self)]
    /\ UNCHANGED <<input, current_idx, peek_idx, line, column, state>>
    /\ PrivateFrame

\* a call of Lexer::consume_whitespace
CallConsumeWhitespace ==
    /\ state = "ready"
    /\ Store(consume_whitespace(Self))
    /\ result' = [op |-> "consume_whitespace", some |-> FALSE, tok |-> NoToken]
    /\ value' = NoValue
    /\ PrivateFrame

\* a call of Lexer::consume_comment
CallConsumeComment ==
    /\ state = "ready"
    /\ Store(consume_comment(Self))
    /\ result' = [op |-> "consume_comment", some |-> FALSE, tok |-> NoToken]
    /\ value' = NoValue
    /\ PrivateFrame

\* a call of Lexer::read_number
CallReadNumber ==
    /\ state = "ready"
    /\ LET r == read_number(Self)
       IN  /\ Store(r.l)
           /\ result' = [op |-> "read_number", some |-> FALSE, tok |-> NoToken]
           /\ value' = [NoValue EXCEPT !.ok = r.ret.ok, !.num = r.ret.val]
    /\ PrivateFrame

\* a call of Lexer::read_identifier
CallReadIdentifier ==
    /\ state = "ready"
    /\ LET r == read_identifier(Self)
       IN  /\ Store(r.l)
           /\ result' = [op |-> "read_identifier", some |-> FALSE, tok |-> NoToken]
           /\ value' = [NoValue EXCEPT !.text = r.ret]
    /\ PrivateFrame

\* a call of Lexer::read_token whose token the caller does not collect
CallReadToken ==
    /\ state = "ready"
    /\ LET r == read_token(Self)
       IN  /\ Store(r.l)
           /\ result' = [op |-> "read_token", some |-> TRUE, tok |-> r.ret]
           /\ value' = NoValue
           /\ lead' = r.lead
    /\ UNCHANGED <<tokens, eof>>

OpsNext ==
    \/ new
    \/ CallReadToken
    \/ CallNext
    \/ CallPeek
    \/ CallCurrent
    \/ CallConsumeWhitespace
    \/ CallConsumeComment
    \/ CallReadNumber
    \/ CallReadIdentifier

OpsSpec == Init /\ [][OpsNext]_vars

----------------------------------------------------------------------------
(* A caller that also formats the tokens it reads *)

\* `tk.to_string()` on the token the last read returned
fmt ==
    /\ state = "ready"
    /\ result.op \in {"read_token", "iter_next"}
    /\ result.some
    /\ result.tok.type \in DisplayTypes
    /\ result' = [result EXCEPT !.op = "fmt"]
    /\ value' = [NoValue EXCEPT !.text = display(result.tok)]
    /\ UNCHANGED <<input, current_idx, peek_idx, line, column, state, tokens, lead, eof>>

DisplayNext == new \/ ReadToken \/ fmt

DisplaySpec == Init /\ [][DisplayNext]_vars

----------------------------------------------------------------------------
(* Properties *)

\* the last operation was a token read (read_token or the iterator's next)
IsRead(r) == r.op \in {"read_token", "iter_next"}

\* the last operation signalled end-of-input
SignalsEof(r) ==
    \/ r.op = "read_token" /\ r.tok = Eol
    \/ r.op = "iter_next" /\ ~r.some

\* C1: once read_token (or the iterator's next) has signalled end-of-input,
\* every later call signals end-of-input again and leaves current_idx,
\* peek_idx, line and column unchanged.
C1_EofIsTerminal ==
    [][eof > 0 => /\ IsRead(result') /\ SignalsEof(result')
                  /\ eof' = eof + 1
                  /\ UNCHANGED <<current_idx, peek_idx, line, column, tokens>>]_vars

\* end-of-input was signalled twice, by both interfaces, after some tokens
C1_Witness ==
    /\ eof = 2
    /\ result.op = "iter_next"
    /\ Len(tokens) >= 2
    /\ input[Len(input)] \in Whitespace

\* C2: repeated read_token calls reach end-of-input after finitely many
\* calls: every call returns, a call that does not signal end-of-input
\* moves current_idx forward, so that at most Len(input) calls return a
\* token; and once end-of-input is signalled the number of characters
\* consumed (current_idx + 1) equals the length of the input.
C2_ReachesEofConsumingAll ==
    /\ [](eof > 0 => current_idx + 1 = Len(input))
    /\ [](Len(tokens) <= Len(input))
    /\ [][IsRead(result') =>
            \/ SignalsEof(result') /\ eof' = eof + 1
            \/ ~SignalsEof(result') /\ current_idx' > current_idx
                                    /\ Len(tokens') = Len(tokens) + 1]_vars

\* end-of-input was signalled once, on an input holding a comment and
\* whitespace, all of it consumed
C2_Witness ==
    /\ eof = 1
    /\ SignalsEof(result)
    /\ Len(input) >= 5
    /\ \E i \in 1..(Len(input) - 1) : input[i] = "/" /\ input[i + 1] = "*"
    /\ \E i \in 1..Len(input) : input[i] \in Whitespace
    /\ current_idx + 1 = Len(input)

\* C3: constructing a scanner over a zero-length or one-character input
\* does not panic; the empty input yields end-of-input on the first
\* read_token call, a one-character input its single token and then
\* end-of-input.
C3_DegenerateInputsAccepted ==
    Len(input) <= 1 =>
        /\ state # "panicked"
        /\ (eof > 0 => Len(tokens) = Len(input))

----------------------------------------------------------------------------
(* The input as the claims describe it *)

\* the character at Rust index i of the input, None past its end
CharAt(i) == IF i >= 0 /\ i < Len(input) THEN input[i + 1] ELSE None

RECURSIVE SkipWs(_)
\* the first index from i on that holds no whitespace (Len(input) if none)
SkipWs(i) ==
    IF i < Len(input) /\ input[i + 1] \in Whitespace THEN SkipWs(i + 1) ELSE i

\* between two calls: the index and the character the next token read will
\* meet first after the whitespace
AheadIdx == SkipWs(current_idx + 1)

AheadCh == CharAt(AheadIdx)

\* the token returned by the last read
Returned == result.tok

\* the last operation read a token whose lead character is in the set S
LeadIn(S) == IsRead(result) /\ lead >= 0 /\ CharAt(lead) \in S

OpLeads == {"=", "!", "<", ">"}

OneCharOp(ch) ==
    CASE ch = "=" -> Tok("Assign") [] ch = "!" -> Tok("Bang")
      [] ch = "<" -> Tok("Lt") [] ch = ">" -> Tok("Gt")

TwoCharOp(ch) ==
    CASE ch = "=" -> Tok("Eq") [] ch = "!" -> Tok("NotEq")
      [] ch = "<" -> Tok("LtEq") [] ch = ">" -> Tok("GtEq")

\* C4: whenever the lead character is one of = ! < > and the next character
\* is =, the read returns Eq, NotEq, LtEq or GtEq and consumes both
\* characters; otherwise it returns Assign, Bang, Lt or Gt and consumes only
\* the lead character.  An operator character met first after the
\* whitespace is the lead character of the token read, at every position.
C4_TwoCharOperators ==
    /\ [](LeadIn(OpLeads) =>
            IF CharAt(lead + 1) = "="
            THEN Returned = TwoCharOp(CharAt(lead)) /\ current_idx = lead + 1
            ELSE Returned = OneCharOp(CharAt(lead)) /\ current_idx = lead)
    /\ [][IsRead(result') /\ AheadCh \in OpLeads => lead' = AheadIdx]_vars

\* "<=!" was read as LtEq at the very first character, then Bang at the end
C4_Witness ==
    /\ tokens = <<Tok("LtEq"), Tok("Bang")>>
    /\ CharAt(0) = "<"
    /\ lead = 2
    /\ current_idx = 2

KeywordSpellings ==
    { <<"d", "e", "c", "l">>, <<"l", "e", "t">>, <<"f", "u", "n">>, <<"f", "n">>,
      <<"i", "f">>, <<"e", "l", "s", "e">>, <<"r", "e", "t", "u", "r", "n">>,
      <<"w", "h", "i", "l", "e">>, <<"f", "o", "r">> }

\* C5: an identifier whose text is a spelling of a reserved keyword (decl/let,
\* fun/fn, if, else, return, while, for) is never returned as Ident; and
\* "decl a = 42;" scans to the declaration keyword, Ident("a"), Assign,
\* Integer(42), Semicolon.
C5_KeywordsNeverIdent ==
    /\ \A i \in 1..Len(tokens) :
          tokens[i].type = "Ident" => tokens[i].name \notin KeywordSpellings
    /\ (input = <<"d", "e", "c", "l", " ", "a", " ", "=", " ", "4", "2", ";">>
          /\ eof > 0) =>
             /\ Len(tokens) = 5
             /\ tokens[1].type \in {"Decl", "Let"}
             /\ SubSeq(tokens, 2, 5) =
                   <<Ident(<<"a">>), Tok("Assign"), Integer(42), Tok("Semicolon")>>

\* C6: a line comment produces no token: no token read has the first / of
\* a // pair as its lead character, and "// c\nx" scans to exactly
\* [Ident("x")].
C6_LineCommentSkipped ==
    /\ LeadIn({"/"}) => CharAt(lead + 1) # "/"
    /\ (input = <<"/", "/", " ", "c", "\n", "x">> /\ eof > 0) =>
          tokens = <<Ident(<<"x">>)>>

RECURSIVE CloseFrom(_)
\* the index of the * of the first * / pair that starts at index k or later
\* (-1 if there is none)
CloseFrom(k) ==
    IF k + 1 >= Len(input) THEN -1
    ELSE IF input[k + 1] = "*" /\ input[k + 2] = "/" THEN k
    ELSE CloseFrom(k + 1)

\* C7: a block comment never produces a token: a read that meets the opener
\* / * returns what a read started right after the closing * / returns, and
\* when no closing * / follows the opener it consumes to the end of the
\* input and signals end-of-input without returning any token.
C7_BlockCommentSkipped ==
    [][(IsRead(result') /\ AheadCh = "/" /\ CharAt(AheadIdx + 1) = "*") =>
         LET k == CloseFrom(AheadIdx + 2)
             r == read_token(Lexer(input, k + 1, k + 2, line, column))
         IN  IF k = -1 \/ r.ret = Eol
             THEN /\ SignalsEof(result')
                  /\ current_idx' = Len(input) - 1
                  /\ tokens' = tokens
             ELSE /\ result'.tok = r.ret
                  /\ current_idx' = r.l.current_idx
                  /\ tokens' = Append(tokens, r.ret)]_vars

RECURSIVE RunEnd(_)
\* the index of the last character of the maximal numeric run holding index i
RunEnd(i) == IF CharAt(i + 1) \in Numeric THEN RunEnd(i + 1) ELSE i

\* the characters of the input at the indices i..j
Slice(i, j) == SubSeq(input, i + 1, j + 1)

RECURSIVE StripZeros(_)
StripZeros(s) == IF s # <<>> /\ Head(s) = "0" THEN StripZeros(Tail(s)) ELSE s

\* the decimal digits of 2147483647
I32MaxDigits == <<"2", "1", "4", "7", "4", "8", "3", "6", "4", "7">>

RECURSIVE DigitsLeq(_, _)
\* s <= t for two digit sequences of the same length
DigitsLeq(s, t) ==
    IF s = <<>> THEN TRUE
    ELSE IF DigitVal(Head(s)) # DigitVal(Head(t))
         THEN DigitVal(Head(s)) < DigitVal(Head(t))
         ELSE DigitsLeq(Tail(s), Tail(t))

\* the run is a decimal numeral of a value in the signed 32-bit range
FitsI32(run) ==
    /\ \A i \in 1..Len(run) : run[i] \in AsciiDigits
    /\ LET sig == StripZeros(run)
       IN  \/ Len(sig) < Len(I32MaxDigits)
           \/ Len(sig) = Len(I32MaxDigits) /\ DigitsLeq(sig, I32MaxDigits)

RECURSIVE DecValue(_)
\* the value of a decimal numeral that fits
DecValue(run) ==
    IF run = <<>> THEN 0
    ELSE DecValue(SubSeq(run, 1, Len(run) - 1)) * 10 + DigitVal(run[Len(run)])

OtherChars ==
    Chars \ (Whitespace \cup Alphabetic \cup Numeric \cup OpLeads
                \cup SingleChars \cup {"/"})

\* C9: a character that is not whitespace and starts no recognised token,
\* met first after the whitespace, is consumed alone as exactly one Invalid
\* token, and scanning continues: "^&~ x" gives Invalid, Invalid, Invalid,
\* Ident("x").
C9_InvalidOneForOne ==
    /\ [](LeadIn(OtherChars) => Returned = Invalid /\ current_idx = lead)
    /\ []((input = <<"^", "&", "~", " ", "x">> /\ eof > 0) =>
            tokens = <<Invalid, Invalid, Invalid, Ident(<<"x">>)>>)
    /\ [][IsRead(result') /\ AheadCh \in OtherChars =>
            /\ lead' = AheadIdx
            /\ current_idx' = AheadIdx
            /\ tokens' = Append(tokens, Invalid)]_vars

\* "^&~ x" was read to its end
C9_Witness ==
    /\ input = <<"^", "&", "~", " ", "x">>
    /\ eof > 0
    /\ tokens = <<Invalid, Invalid, Invalid, Ident(<<"x">>)>>

\* space, tab, carriage return and newline
BlankChars == {" ", "\t", "\r", "\n"}

\* the runs of 1..MaxRun blank characters
BlankRuns == StringsOver(BlankChars, MaxRun) \ {<<>>}

\* the text s with the run put after its i-th character
InsertAfter(s, i, run) == SubSeq(s, 1, i) \o run \o SubSeq(s, i + 1, Len(s))

\* C10: whitespace is never the lead character of a token, and the tokens
\* of a text (compared when its end-of-input is first signalled) stay the
\* same when any of its blank characters is followed by a further run of
\* spaces, tabs, carriage returns and newlines.
C10_WhitespaceInsensitive ==
    /\ ~LeadIn(Whitespace)
    /\ (eof = 1 /\ SignalsEof(result)) =>
          \A i \in 1..Len(input) :
             input[i] \in BlankChars =>
                \A run \in BlankRuns :
                   Tokenize(InsertAfter(input, i, run)) = tokens

\* a text with blanks before, between and after its two or more tokens was
\* read to its end
C10_Witness ==
    /\ eof = 1
    /\ SignalsEof(result)
    /\ Len(tokens) >= 2
    /\ CharAt(0) \in BlankChars
    /\ CharAt(Len(input) - 1) \in BlankChars
    /\ \E i \in 1..(Len(input) - 2) : CharAt(i) \in BlankChars

\* C11: the iterator refines the pull interface: a call of the iterator's
\* next leaves the Lexer as read_token leaves it, returns None exactly when
\* read_token returns Eol and Some of read_token's token otherwise; so the
\* tokens yielded up to the first end-of-input, by whichever interface, are
\* the tokens read_token returns on a fresh Lexer over the same text.
C11_IteratorRefinesPull ==
    /\ [](eof > 0 => tokens = Tokenize(input))
    /\ [][result'.op = "iter_next" =>
            LET r == read_token(Self)
            IN  /\ Self' = r.l
                /\ result'.some <=> r.ret # Eol
                /\ result'.some => result'.tok = r.ret
                /\ ~result'.some => eof' = eof + 1 /\ tokens' = tokens]_vars

\* the iterator yielded three or more tokens and then None
C11_Witness ==
    /\ result.op = "iter_next"
    /\ ~result.some
    /\ eof = 1
    /\ Len(tokens) >= 3
    /\ tokens = Tokenize(input)

\* the last operation was a call of the private operation named op
Called(op) == state = "ready" /\ result.op = op

\* C12: every consumed character advances the column counter by one;
\* consuming a newline increments the line counter by one and resets the
\* column counter to the value it has in a freshly constructed scanner (1);
\* consuming any other character leaves the line counter unchanged.
C12_LineColumnTracking ==
    [][(result'.op = "next" /\ value'.ch # None) =>
         IF value'.ch = "\n"
         THEN line' = line + 1 /\ column' = 1
         ELSE line' = line /\ column' = column + 1]_vars

\* C13: across any sequence of next, peek, current, consume_whitespace,
\* consume_comment, read_number, read_identifier and read_token calls
\* current_idx never decreases, and peek and current leave every field of
\* the scanner unchanged.
C13_IndexMonotone ==
    /\ [][current_idx' >= current_idx]_vars
    /\ [][result'.op \in {"peek", "current"} => Self' = Self]_vars

\* current was called on a scanner that had consumed nothing: it returned
\* the first character and current_idx is still -1
C13_Witness ==
    /\ Called("current")
    /\ current_idx = -1
    /\ value.ch = CharAt(0)
    /\ Len(input) >= 2

\* the fixed operator and delimiter tokens
FixedTypes ==
    {"Assign", "Plus", "Minus", "Bang", "Asterisk", "Slash", "Lt", "LtEq", "Gt",
     "GtEq", "Eq", "NotEq", "Comma", "Semicolon", "LParen", "RParen", "LBrace",
     "RBrace", "LBracket", "RBracket"}

\* the literal symbol of a fixed operator or delimiter token
SymbolOf(type) ==
    CASE type = "Assign" -> <<"=">> [] type = "Plus" -> <<"+">>
      [] type = "Minus" -> <<"-">> [] type = "Bang" -> <<"!">>
      [] type = "Asterisk" -> <<"*">> [] type = "Slash" -> <<"/">>
      [] type = "Lt" -> <<"<">> [] type = "LtEq" -> <<"<", "=">>
      [] type = "Gt" -> <<">">> [] type = "GtEq" -> <<">", "=">>
      [] type = "Eq" -> <<"=", "=">> [] type = "NotEq" -> <<"!", "=">>
      [] type = "Comma" -> <<",">> [] type = "Semicolon" -> <<";">>
      [] type = "LParen" -> <<"(">> [] type = "RParen" -> <<")">>
      [] type = "LBrace" -> <<"{">> [] type = "RBrace" -> <<"}">>
      [] type = "LBracket" -> <<"[">> [] type = "RBracket" -> <<"]">>

\* C14: every fixed operator and delimiter token is displayed as its own
\* literal symbol (LBrace as "{", RBrace as "}", LBracket as "[", RBracket
\* as "]", ...), and scanning the displayed text gives that token back.
C14_DisplayIsOwnSymbol ==
    (result.op = "fmt" /\ result.tok.type \in FixedTypes) =>
        /\ value.text = SymbolOf(result.tok.type)
        /\ Tokenize(value.text) = <<result.tok>>

\* the characters that continue an identifier
IdentChars == Alphabetic \cup Numeric \cup {"_"}

\* C15: a digit run immediately followed by identifier characters is one
\* Invalid token: the read whose lead character starts such a run returns
\* Invalid, and "42foo" does not scan to Integer(42) followed by
\* Ident("foo") but to Invalid.
C15_DigitRunThenIdentIsInvalid ==
    /\ (LeadIn(Numeric) /\ CharAt(RunEnd(lead) + 1) \in IdentChars) =>
          Returned = Invalid
    /\ (input = <<"4", "2", "f", "o", "o">> /\ eof > 0) =>
          /\ tokens # <<Integer(42), Ident(<<"f", "o", "o">>)>>
          /\ tokens = <<Invalid>>

\* C16: the * of the opener / * is never the * of the closer: a read that
\* meets an opener with no * / pair lying entirely after it signals
\* end-of-input, "/*/ x */ y" scans to exactly [Ident("y")], and "/*/a" is
\* an unterminated comment that yields no token.
C16_OpenerStarNotReused ==
    /\ [][(IsRead(result') /\ AheadCh = "/" /\ CharAt(AheadIdx + 1) = "*"
              /\ CloseFrom(AheadIdx + 2) = -1) => SignalsEof(result')]_vars
    /\ []((input = <<"/", "*", "/", " ", "x", " ", "*", "/", " ", "y">> /\ eof > 0) =>
             tokens = <<Ident(<<"y">>)>>)
    /\ []((input = <<"/", "*", "/", "a">> /\ eof > 0) => tokens = <<>>)

\* C17 as stated: in every reachable state, a freshly constructed scanner
\* included, peek returns the character (or None) that the immediately
\* following next call returns.
C17_PeekIsNextEverywhere ==
    Called("peek") => value.ch = next(Self).ret

\* C17: once at least one character has been consumed, peek returns the
\* character (or None) that the immediately following next call returns; on
\* a scanner that has consumed nothing peek returns the second character of
\* the input while next returns the first.
C17_PeekIsNextOnceConsumed ==
    Called("peek") =>
        IF current_idx >= 0
        THEN value.ch = next(Self).ret
        ELSE value.ch = CharAt(1) /\ next(Self).ret = CharAt(0)

\* peek was called after two characters were consumed and returned the third,
\* which differs from the character under the cursor
C17_Witness ==
    /\ Called("peek")
    /\ current_idx = 1
    /\ value.ch # None
    /\ value.ch = CharAt(2)
    /\ value.ch # CharAt(1)

\* C18: after consume_whitespace returns, fresh or mid-stream, the character
\* the next call of next returns is not whitespace (or is None): the call
\* consumed exactly the contiguous whitespace ahead of the cursor, and
\* nothing when there was none.
C18_WhitespaceSkipped ==
    /\ [](Called("consume_whitespace") => next(Self).ret \notin Whitespace)
    /\ [][result'.op = "consume_whitespace" =>
            current_idx' = SkipWs(current_idx + 1) - 1]_vars

\* C19: when the current character is not / or the peeked character is not
\* *, consume_comment leaves the whole scanner state unchanged, and the
\* following next returns the character it would have returned before.
C19_CommentGuard ==
    [][(result'.op = "consume_comment"
          /\ (current(Self) # "/" \/ peek(Self) # "*")) =>
         /\ Self' = Self
         /\ next(Self').ret = next(Self).ret]_vars

\* C20: in every state reachable from Lexer::new on an accepted input,
\* -1 <= current_idx <= len - 1 and peek_idx <= len, and once a character
\* has been consumed peek_idx = current_idx + 1.
C20_IndexInvariant ==
    state = "ready" =>
        /\ -1 <= current_idx
        /\ current_idx <= Len(input) - 1
        /\ peek_idx <= Len(input)
        /\ current_idx >= 0 => peek_idx = current_idx + 1

\* next was called with the cursor on the last character of a three-character
\* input: it returned None and both indices stayed at their bounds
C20_Witness ==
    /\ Called("next")
    /\ value.ch = None
    /\ Len(input) = 3
    /\ current_idx = 2
    /\ peek_idx = 3

====
